---- MODULE Spec2Model ----
(***************************************************************************)
(* Model of docker/validate.py: main() runs six probes one after another,  *)
(* stores each boolean result, renders a summary and exits.  Every import, *)
(* attribute access and library call of a probe is one step whose outcome  *)
(* is chosen from Outcomes; the handlers of the enclosing try statements   *)
(* decide what the step's failure does to the probe.                       *)
(***************************************************************************)
EXTENDS Integers, Sequences, FiniteSets, TLC

VARIABLES pc, line, results, ret, calls, out, success, available, i, gpus,
          exit_status, order

vars == <<pc, line, results, ret, calls, out, success, available, i, gpus,
          exit_status, order>>

\* Largest number of accelerator devices the environment may hold.
MaxGpus == 2

\* What an import, attribute access or library call can do: complete, raise
\* ImportError, or raise another subclass of Exception.
Outcomes == {"ok", "ImportError", "Exception"}

\* The order in which main() calls the probes, by the key each result is
\* stored under.
ProbeOrder == <<"pytorch", "transformer_engine", "modelopt", "megatron_lm",
                "additional_tools", "fp8_test">>

Checks == {ProbeOrder[n] : n \in 1..Len(ProbeOrder)}

\* The module names of the tools table, in iteration order.
tools == <<"jupyter", "tensorboard", "wandb", "datasets", "transformers">>

required_mut == <<"pytorch", "transformer_engine", "megatron_lm", "modelopt">>

required == <<"pytorch", "transformer_engine", "megatron_lm">>

optional == <<"modelopt", "additional_tools", "fp8_test">>

\* all(results[k] for k in required)
required_pass(res) == \A n \in 1..Len(required) : res[required[n]]

\* torch.cuda.is_available() and torch.cuda.device_count() read the hardware.
cuda_is_available == gpus > 0

NoCalls == [l \in {} |-> "ok"]

NoResults == [k \in {} |-> TRUE]

Ok(l) == l \in DOMAIN calls /\ calls[l] = "ok"

Attempted(l) == l \in DOMAIN calls

----------------------------------------------------------------------------
(* Building blocks of a probe step. *)

InProbe(p, l) == pc = p /\ line = l /\ exit_status = -1

Called(l, o) == calls' = (l :> o) @@ calls

Goto(l, msgs) == line' = l /\ out' = out \o msgs /\ ret' = ret

Return(v, msgs) == line' = "returned" /\ out' = out \o msgs /\ ret' = v

\* An exception no handler of the probe catches leaves the probe.
Escape == line' = "raised" /\ out' = out /\ ret' = ret

KeepMain == UNCHANGED <<pc, results, gpus, exit_status, order>>

KeepLocals == UNCHANGED <<success, available, i>>

\* header(...) at the top of a probe: a fresh activation of the function.
Enter(p, l) ==
    /\ InProbe(p, "header")
    /\ line' = l
    /\ out' = <<"header">>
    /\ calls' = NoCalls
    /\ ret' = FALSE
    /\ success' = TRUE
    /\ available' = 0
    /\ i' = 0
    /\ KeepMain

Init ==
    /\ pc = "start"
    /\ line = "header"
    /\ results = NoResults
    /\ ret = FALSE
    /\ calls = NoCalls
    /\ out = <<>>
    /\ success = TRUE
    /\ available = 0
    /\ i = 0
    /\ gpus \in 0..MaxGpus
    /\ exit_status = -1
    /\ order = <<>>

----------------------------------------------------------------------------
(* check_pytorch *)

pytorch_except_mut(o) == Return(TRUE, <<"fail">>)

\* except Exception as e: fail(...); return False
pytorch_except(o) == Return(FALSE, <<"fail">>)

pytorch_header == Enter("pytorch", "import") 

\* A statement of check_pytorch's try body whose only effect is to continue
\* or to raise into the handler.
pytorch_stmt(l, next, msgs) ==
    /\ InProbe("pytorch", l)
    /\ \E o \in Outcomes :
        /\ Called(l, o)
        /\ IF o = "ok" THEN Goto(next, msgs) ELSE pytorch_except(o)
    /\ KeepMain /\ KeepLocals

pytorch_import == pytorch_stmt("import", "version", <<>>)

pytorch_version == pytorch_stmt("version", "is_available", <<"ok">>)

pytorch_is_available ==
    /\ InProbe("pytorch", "is_available")
    /\ \E o \in Outcomes :
        /\ Called("is_available", o)
        /\ IF o = "ok"
           THEN IF cuda_is_available
                THEN Goto("cuda_version", <<>>)
                ELSE Return(FALSE, <<"fail">>)
           ELSE pytorch_except(o)
    /\ KeepMain /\ KeepLocals

pytorch_cuda_version == pytorch_stmt("cuda_version", "device_count", <<"ok">>)

pytorch_device_count ==
    /\ InProbe("pytorch", "device_count")
    /\ \E o \in Outcomes :
        /\ Called("device_count", o)
        /\ IF o = "ok" THEN Goto("for", <<"ok">>) ELSE pytorch_except(o)
    /\ i' = 0
    /\ KeepMain /\ UNCHANGED <<success, available>>

\* for i in range(gpu_count): the loop test.
pytorch_for ==
    /\ InProbe("pytorch", "for")
    /\ IF i < gpus THEN Goto("get_device_name", <<>>) ELSE Goto("randn", <<>>)
    /\ UNCHANGED calls
    /\ KeepMain /\ KeepLocals

pytorch_get_device_name ==
    pytorch_stmt("get_device_name", "get_device_properties", <<>>)

pytorch_get_device_properties ==
    /\ InProbe("pytorch", "get_device_properties")
    /\ \E o \in Outcomes :
        /\ Called("get_device_properties", o)
        /\ IF o = "ok"
           THEN Goto("for", <<"info">>) /\ i' = i + 1
           ELSE pytorch_except(o) /\ i' = i
    /\ KeepMain /\ UNCHANGED <<success, available>>

pytorch_randn == pytorch_stmt("randn", "matmul", <<>>)

pytorch_matmul ==
    /\ InProbe("pytorch", "matmul")
    /\ \E o \in Outcomes :
        /\ Called("matmul", o)
        /\ IF o = "ok" THEN Return(TRUE, <<"ok">>) ELSE pytorch_except(o)
    /\ KeepMain /\ KeepLocals

check_pytorch ==
    \/ pytorch_header
    \/ pytorch_import
    \/ pytorch_version
    \/ pytorch_is_available
    \/ pytorch_cuda_version
    \/ pytorch_device_count
    \/ pytorch_for
    \/ pytorch_get_device_name
    \/ pytorch_get_device_properties
    \/ pytorch_randn
    \/ pytorch_matmul

----------------------------------------------------------------------------
(* check_transformer_engine *)

\* except Exception as e: fail(...); return False
te_except(o) == Return(FALSE, <<"fail">>)

te_header == Enter("transformer_engine", "import")

\* A statement directly in the outer try body.
te_stmt(l, next, msgs) ==
    /\ InProbe("transformer_engine", l)
    /\ \E o \in Outcomes :
        /\ Called(l, o)
        /\ IF o = "ok" THEN Goto(next, msgs) ELSE te_except(o)
    /\ KeepMain /\ KeepLocals

\* A statement inside an inner try whose handler is `except ImportError`:
\* ImportError warns and goes on after the inner try, any other exception
\* reaches the outer handler.
te_sub(l, next, msgs, after) ==
    /\ InProbe("transformer_engine", l)
    /\ \E o \in Outcomes :
        /\ Called(l, o)
        /\ CASE o = "ok" -> Goto(next, msgs)
             [] o = "ImportError" -> Goto(after, <<"warn">>)
             [] OTHER -> te_except(o)
    /\ KeepMain /\ KeepLocals

\* A statement inside the forward-pass try, whose handler is
\* `except Exception`: every failure warns and goes on to `return True`.
te_fwd(l, next, msgs) ==
    /\ InProbe("transformer_engine", l)
    /\ \E o \in Outcomes :
        /\ Called(l, o)
        /\ IF o = "ok" THEN Goto(next, msgs) ELSE Goto("return", <<"warn">>)
    /\ KeepMain /\ KeepLocals

te_import == te_stmt("import", "version", <<>>)

te_version == te_stmt("version", "import_pytorch", <<"ok">>)

te_import_pytorch == te_stmt("import_pytorch", "import_recipe", <<"ok">>)

te_import_recipe == te_sub("import_recipe", "formats", <<"ok">>, "import_fp8")

te_formats == te_sub("formats", "import_fp8", <<"ok">>, "import_fp8")

te_import_fp8 == te_sub("import_fp8", "import_layers", <<"ok">>, "import_layers")

te_import_layers == te_sub("import_layers", "fwd_import_torch", <<"ok">>, "fwd_import_torch")

te_fwd_import_torch == te_fwd("fwd_import_torch", "fwd_is_available", <<>>)

te_fwd_is_available ==
    /\ InProbe("transformer_engine", "fwd_is_available")
    /\ \E o \in Outcomes :
        /\ Called("fwd_is_available", o)
        /\ IF o = "ok"
           THEN IF cuda_is_available
                THEN Goto("fwd_linear", <<>>)
                ELSE Goto("return", <<>>)
           ELSE Goto("return", <<"warn">>)
    /\ KeepMain /\ KeepLocals

te_fwd_linear == te_fwd("fwd_linear", "fwd_randn", <<>>)

te_fwd_randn == te_fwd("fwd_randn", "fwd_layer", <<>>)

te_fwd_layer == te_fwd("fwd_layer", "return", <<"ok">>)

te_return ==
    /\ InProbe("transformer_engine", "return")
    /\ Return(TRUE, <<>>)
    /\ UNCHANGED calls
    /\ KeepMain /\ KeepLocals

check_transformer_engine ==
    \/ te_header
    \/ te_import
    \/ te_version
    \/ te_import_pytorch
    \/ te_import_recipe
    \/ te_formats
    \/ te_import_fp8
    \/ te_import_layers
    \/ te_fwd_import_torch
    \/ te_fwd_is_available
    \/ te_fwd_linear
    \/ te_fwd_randn
    \/ te_fwd_layer
    \/ te_return

----------------------------------------------------------------------------
(* check_modelopt *)

modelopt_except_mut(o) == Return(FALSE, <<"fail">>)

\* except ImportError as e: fail(...); return False
\* except Exception as e: warn(...); return True
modelopt_except(o) ==
    IF o = "ImportError"
    THEN Return(FALSE, <<"fail">>)
    ELSE Return(TRUE, <<"warn">>)

modelopt_header == Enter("modelopt", "import")

\* A statement directly in the outer try body.
modelopt_stmt(l, next, msgs) ==
    /\ InProbe("modelopt", l)
    /\ \E o \in Outcomes :
        /\ Called(l, o)
        /\ IF o = "ok" THEN Goto(next, msgs) ELSE modelopt_except(o)
    /\ KeepMain /\ KeepLocals

\* A statement of the quantization try, whose handler is `except Exception`.
modelopt_quant(l, next, msgs) ==
    /\ InProbe("modelopt", l)
    /\ \E o \in Outcomes :
        /\ Called(l, o)
        /\ IF o = "ok" THEN Goto(next, msgs) ELSE Goto("import_export", <<"warn">>)
    /\ KeepMain /\ KeepLocals

modelopt_import == modelopt_stmt("import", "version", <<>>)

modelopt_version == modelopt_stmt("version", "import_quantization", <<"ok">>)

modelopt_import_quantization ==
    modelopt_quant("import_quantization", "quant_configs", <<"ok">>)

modelopt_quant_configs == modelopt_quant("quant_configs", "import_export", <<"info">>)

\* import modelopt.torch.export, under `except ImportError`.
modelopt_import_export ==
    /\ InProbe("modelopt", "import_export")
    /\ \E o \in Outcomes :
        /\ Called("import_export", o)
        /\ CASE o = "ok" -> Goto("return", <<"ok">>)
             [] o = "ImportError" -> Goto("return", <<"info">>)
             [] OTHER -> modelopt_except(o)
    /\ KeepMain /\ KeepLocals

modelopt_return ==
    /\ InProbe("modelopt", "return")
    /\ Return(TRUE, <<>>)
    /\ UNCHANGED calls
    /\ KeepMain /\ KeepLocals

check_modelopt ==
    \/ modelopt_header
    \/ modelopt_import
    \/ modelopt_version
    \/ modelopt_import_quantization
    \/ modelopt_quant_configs
    \/ modelopt_import_export
    \/ modelopt_return

----------------------------------------------------------------------------
(* check_megatron_lm *)

\* except Exception as e: fail(...); return False
megatron_except(o) == Return(FALSE, <<"fail">>)

megatron_header == Enter("megatron_lm", "import")

megatron_import ==
    /\ InProbe("megatron_lm", "import")
    /\ \E o \in Outcomes :
        /\ Called("import", o)
        /\ IF o = "ok" THEN Goto("parallel_state", <<"ok">>) ELSE megatron_except(o)
    /\ KeepMain /\ KeepLocals

\* from megatron.core import parallel_state; its ImportError handler also
\* clears success.
megatron_parallel_state ==
    /\ InProbe("megatron_lm", "parallel_state")
    /\ \E o \in Outcomes :
        /\ Called("parallel_state", o)
        /\ CASE o = "ok" -> Goto("tensor_parallel", <<"ok">>) /\ success' = success
             [] o = "ImportError" -> Goto("tensor_parallel", <<"warn">>) /\ success' = FALSE
             [] OTHER -> megatron_except(o) /\ success' = success
    /\ KeepMain /\ UNCHANGED <<available, i>>

\* An advisory import under `except ImportError`, which reports with
\* severity sev and goes on.
megatron_sub(l, next, sev) ==
    /\ InProbe("megatron_lm", l)
    /\ \E o \in Outcomes :
        /\ Called(l, o)
        /\ CASE o = "ok" -> Goto(next, <<"ok">>)
             [] o = "ImportError" -> Goto(next, <<sev>>)
             [] OTHER -> megatron_except(o)
    /\ KeepMain /\ KeepLocals

megatron_tensor_parallel == megatron_sub("tensor_parallel", "transformer_config", "warn")

megatron_transformer_config == megatron_sub("transformer_config", "gpt_model", "warn")

megatron_gpt_model == megatron_sub("gpt_model", "install_path", "info")

\* The installation path block under a bare `except: pass`.  A regular
\* package has __file__, a namespace package only __path__.
megatron_install_path ==
    /\ InProbe("megatron_lm", "install_path")
    /\ \E o \in Outcomes :
        /\ Called("install_path", o)
        /\ IF o = "ok"
           THEN \E layout \in {"file", "path", "none"} :
                    Goto("return", IF layout = "none" THEN <<>> ELSE <<"info">>)
           ELSE Goto("return", <<>>)
    /\ KeepMain /\ KeepLocals

\* return success
megatron_return ==
    /\ InProbe("megatron_lm", "return")
    /\ Return(success, <<>>)
    /\ UNCHANGED calls
    /\ KeepMain /\ KeepLocals

check_megatron_lm ==
    \/ megatron_header
    \/ megatron_import
    \/ megatron_parallel_state
    \/ megatron_tensor_parallel
    \/ megatron_transformer_config
    \/ megatron_gpt_model
    \/ megatron_install_path
    \/ megatron_return

----------------------------------------------------------------------------
(* check_additional_tools *)

tools_header == Enter("additional_tools", "for")

\* One iteration of the loop: __import__(module) under `except ImportError`.
\* i counts the entries of the table already visited.
tools_import ==
    /\ InProbe("additional_tools", "for")
    /\ i < Len(tools)
    /\ \E o \in Outcomes :
        /\ Called(tools[i + 1], o)
        /\ CASE o = "ok" -> Goto("for", <<"ok">>) /\ available' = available + 1
             [] o = "ImportError" -> Goto("for", <<"info">>) /\ available' = available
             [] OTHER -> Escape /\ available' = available
    /\ i' = i + 1
    /\ KeepMain /\ UNCHANGED success

\* return available > 0
tools_return ==
    /\ InProbe("additional_tools", "for")
    /\ i = Len(tools)
    /\ Return(available > 0, <<>>)
    /\ UNCHANGED calls
    /\ KeepMain /\ KeepLocals

check_additional_tools ==
    \/ tools_header
    \/ tools_import
    \/ tools_return

----------------------------------------------------------------------------
(* run_fp8_test *)

\* Compute capability major version below which the probe prints its
\* emulation note.
FP8MinMajor == 9

\* except Exception as e: warn(...); return False
fp8_except(o) == Return(FALSE, <<"warn">>)

fp8_header == Enter("fp8_test", "import_torch")

fp8_stmt(l, next, msgs) ==
    /\ InProbe("fp8_test", l)
    /\ \E o \in Outcomes :
        /\ Called(l, o)
        /\ IF o = "ok" THEN Goto(next, msgs) ELSE fp8_except(o)
    /\ KeepMain /\ KeepLocals

fp8_import_torch == fp8_stmt("import_torch", "import_te", <<>>)

fp8_import_te == fp8_stmt("import_te", "import_recipe", <<>>)

fp8_import_recipe == fp8_stmt("import_recipe", "is_available", <<>>)

fp8_is_available_mut ==
    /\ InProbe("fp8_test", "is_available")
    /\ \E o \in Outcomes :
        /\ Called("is_available", o)
        /\ IF o = "ok" THEN Goto("capability", <<>>) ELSE fp8_except(o)
    /\ KeepMain /\ KeepLocals

\* if not torch.cuda.is_available(): warn(...); return False
fp8_is_available ==
    /\ InProbe("fp8_test", "is_available")
    /\ \E o \in Outcomes :
        /\ Called("is_available", o)
        /\ IF o = "ok"
           THEN IF ~cuda_is_available
                THEN Return(FALSE, <<"warn">>)
                ELSE Goto("capability", <<>>)
           ELSE fp8_except(o)
    /\ KeepMain /\ KeepLocals

\* capability = torch.cuda.get_device_capability(); two info lines when the
\* major version is below FP8MinMajor.
fp8_capability ==
    /\ InProbe("fp8_test", "capability")
    /\ \E o \in Outcomes :
        /\ Called("capability", o)
        /\ IF o = "ok"
           THEN \E major \in {FP8MinMajor - 1, FP8MinMajor} :
                    Goto("recipe", IF major < FP8MinMajor
                                   THEN <<"info", "info">> ELSE <<>>)
           ELSE fp8_except(o)
    /\ KeepMain /\ KeepLocals

fp8_recipe == fp8_stmt("recipe", "linear", <<"ok">>)

fp8_linear == fp8_stmt("linear", "randn", <<>>)

fp8_randn == fp8_stmt("randn", "forward", <<>>)

\* with te.fp8_autocast(...): y = model(x); ok(...); return True
fp8_forward ==
    /\ InProbe("fp8_test", "forward")
    /\ \E o \in Outcomes :
        /\ Called("forward", o)
        /\ IF o = "ok" THEN Return(TRUE, <<"ok">>) ELSE fp8_except(o)
    /\ KeepMain /\ KeepLocals

run_fp8_test ==
    \/ fp8_header
    \/ fp8_import_torch
    \/ fp8_import_te
    \/ fp8_import_recipe
    \/ fp8_is_available
    \/ fp8_capability
    \/ fp8_recipe
    \/ fp8_linear
    \/ fp8_randn
    \/ fp8_forward

----------------------------------------------------------------------------
(* main *)

KeepProbe == UNCHANGED <<ret, calls, success, available, i, gpus>>

\* The position after probe number n has returned.
After(n) == IF n < Len(ProbeOrder) THEN ProbeOrder[n + 1] ELSE "summary"

IndexOf(p) == CHOOSE n \in 1..Len(ProbeOrder) : ProbeOrder[n] = p

\* separator(); banner; results = {}; the call of the first probe.
main_start ==
    /\ pc = "start"
    /\ pc' = ProbeOrder[1]
    /\ line' = "header"
    /\ results' = NoResults
    /\ out' = <<"banner">>
    /\ order' = <<ProbeOrder[1]>>
    /\ UNCHANGED exit_status
    /\ KeepProbe

\* results[...] = <probe>() once the probe has returned, then the next
\* statement of main.
main_store ==
    /\ pc \in Checks
    /\ line = "returned"
    /\ exit_status = -1
    /\ results' = (pc :> ret) @@ results
    /\ pc' = After(IndexOf(pc))
    /\ line' = "header"
    /\ order' = IF pc' \in Checks THEN Append(order, pc') ELSE order
    /\ UNCHANGED <<out, exit_status>>
    /\ KeepProbe

\* An exception that left a probe is not caught in main either: the
\* interpreter prints the traceback and the process ends with status 1.
main_uncaught ==
    /\ pc \in Checks
    /\ line = "raised"
    /\ exit_status = -1
    /\ pc' = "crashed"
    /\ exit_status' = 1
    /\ UNCHANGED <<line, results, out, order>>
    /\ KeepProbe

SummaryLine(res, k, bad) == IF res[k] THEN "PASS" ELSE bad

\* The summary section: one line per required and per optional check.
main_summary ==
    /\ pc = "summary"
    /\ exit_status = -1
    /\ out' = <<"header">>
              \o [n \in 1..Len(required) |-> SummaryLine(results, required[n], "FAIL")]
              \o [n \in 1..Len(optional) |->
                      SummaryLine(results, optional[n], "NOT AVAILABLE")]
    /\ pc' = "verdict"
    /\ UNCHANGED <<line, results, exit_status, order>>
    /\ KeepProbe

\* if required_pass: READY banner (main returns, status 0)
\* else: ISSUES banner; sys.exit(1)
main_verdict ==
    /\ pc = "verdict"
    /\ exit_status = -1
    /\ IF required_pass(results)
       THEN out' = Append(out, "READY") /\ exit_status' = 0
       ELSE out' = Append(out, "ISSUES") /\ exit_status' = 1
    /\ pc' = "exit"
    /\ UNCHANGED <<line, results, order>>
    /\ KeepProbe

main ==
    \/ main_start
    \/ main_store
    \/ main_uncaught
    \/ main_summary
    \/ main_verdict

Next ==
    \/ check_pytorch
    \/ check_transformer_engine
    \/ check_modelopt
    \/ check_megatron_lm
    \/ check_additional_tools
    \/ run_fp8_test
    \/ main

Spec == Init /\ [][Next]_vars

----------------------------------------------------------------------------
(* Properties *)

Returned(p) == pc = p /\ line = "returned"

Terminated == exit_status # -1

\* C1: once all six results are stored and the process has ended, the exit
\* status is 0 exactly when the pytorch, transformer_engine and megatron_lm
\* results are all true, and 1 otherwise, whatever the three optional
\* results are.
C1_ExitStatusIsRequiredAnd ==
    (Terminated /\ DOMAIN results = Checks) =>
        /\ exit_status \in {0, 1}
        /\ exit_status = 0 <=>
               (results["pytorch"] /\ results["transformer_engine"]
                                   /\ results["megatron_lm"])

\* A run that ends with status 0 although every optional check failed.
C1_Witness ==
    /\ pc = "exit"
    /\ exit_status = 0
    /\ ~results["modelopt"]
    /\ ~results["additional_tools"]
    /\ ~results["fp8_test"]

\* C2: no probe ever lets an exception escape: whatever its imports,
\* attribute accesses and calls do, it ends by returning a boolean.
C2_ProbesNeverRaise ==
    /\ line # "raised"
    /\ pc # "crashed"
    /\ ret \in BOOLEAN

\* C3: the probes run in the fixed order, each once; a run that has ended
\* has run all six, and the summary is only reached after the sixth.
C3_AllProbesRunInOrder ==
    /\ Len(order) <= Len(ProbeOrder)
    /\ \A n \in 1..Len(order) : order[n] = ProbeOrder[n]
    /\ pc \in {"summary", "verdict", "exit"} => order = ProbeOrder
    /\ Terminated => order = ProbeOrder /\ pc = "exit"

TeSubProbes == {"import_pytorch", "import_recipe", "import_fp8",
                "import_layers", "fwd_import_torch"}

\* C4: once the top-level import has succeeded and the version has been
\* reported, check_transformer_engine returns True and has attempted every
\* sub-probe, whatever the sub-probes raise.
C4_TeSubProbesOnlyWarn ==
    (Returned("transformer_engine") /\ Ok("import") /\ Ok("version")) =>
        /\ ret
        /\ TeSubProbes \subseteq DOMAIN calls

\* C5: check_megatron_lm returns True exactly when the top-level import and
\* the parallel_state import both succeeded.
C5_MegatronIffImportAndParallelState ==
    Returned("megatron_lm") => (ret <=> (Ok("import") /\ Ok("parallel_state")))

\* C6: check_modelopt returns True whenever its top-level import succeeded,
\* whatever the version access and the two sub-probes raise.
C6_ModeloptPassesOnceImported ==
    (Returned("modelopt") /\ Ok("import")) => ret

PytorchSteps == {"import", "version", "is_available", "cuda_version",
                 "device_count", "randn", "matmul"}

PytorchLoopSteps == {"get_device_name", "get_device_properties"}

\* C7: check_pytorch never raises; a failed import makes it return False
\* with nothing but the import attempted; an absent accelerator makes it
\* return False; it returns True only after the import, the detection, the
\* enumeration of every device and the test computation all completed.
C7_PytorchResult ==
    pc = "pytorch" =>
        /\ line # "raised"
        /\ (Attempted("import") /\ ~Ok("import")) =>
               /\ Returned("pytorch") /\ ~ret
               /\ DOMAIN calls = {"import"}
        /\ (Returned("pytorch") /\ gpus = 0) => ~ret
        /\ (Returned("pytorch") /\ ret) =>
               /\ \A l \in PytorchSteps \cup PytorchLoopSteps : Ok(l)
               /\ gpus > 0
               /\ i = gpus

\* check_pytorch has returned True after enumerating two or more devices.
C7_Witness ==
    /\ Returned("pytorch")
    /\ ret
    /\ i = gpus
    /\ gpus >= 2

Fp8GpuSteps == {"capability", "recipe", "linear", "randn", "forward"}

\* C8: without an accelerator run_fp8_test never raises, never returns
\* True, and never reaches the capability query, the recipe, the layer or
\* the forward computation.
C8_Fp8SkipsWithoutAccelerator ==
    (pc = "fp8_test" /\ line # "header" /\ gpus = 0) =>
        /\ line # "raised"
        /\ Returned("fp8_test") => ~ret
        /\ DOMAIN calls \cap Fp8GpuSteps = {}

\* run_fp8_test has taken its skip branch: every import succeeded and
\* is_available() answered that there is no accelerator.
C8_Witness ==
    /\ Returned("fp8_test")
    /\ gpus = 0
    /\ Ok("import_recipe")
    /\ Ok("is_available")
    /\ ~ret

ToolNames == {tools[n] : n \in 1..Len(tools)}

\* C9: check_additional_tools tries all five tools and returns True exactly
\* when at least one imported; a False result is shown as NOT AVAILABLE in
\* the optional section.
C9_ToolsAllTried ==
    /\ (pc = "additional_tools" /\ line \in {"returned", "raised"}) =>
           /\ line = "returned"
           /\ DOMAIN calls = ToolNames
           /\ ret <=> (\E t \in ToolNames : Ok(t))
    /\ (pc = "exit" /\ ~results["additional_tools"]) =>
           out[1 + Len(required) + 2] = "NOT AVAILABLE"

====
